---- MODULE Spec2Model ----
(***************************************************************************)
(* A model of thug's static JavaScript analysis, src/thug/AST/AST2.py.     *)
(*                                                                         *)
(* class AST parses a script with esprima and walks the resulting tree,    *)
(* collecting names (bindings), assignments (literal initializers),        *)
(* breakpoints and shellcode candidates.                                   *)
(*                                                                         *)
(* Python dictionaries are records: a key the parser omits is a field the  *)
(* record does not have, so  'init' in decl  is  "init" \in DOMAIN decl.   *)
(* A Python list is the record [items |-> <<...>>], so that a field such   *)
(* as 'body', which holds a list in a BlockStatement and a dictionary in a *)
(* loop statement, holds a record either way.                              *)
(*                                                                         *)
(* The Python call stack of the recursive walk is the variable stack: one  *)
(* frame per running  for item in body  loop of AST.walk.  One action is   *)
(* one iteration of that loop: the dispatch of _walk and the whole handler *)
(* it selects; a handler's recursive call of walk is the frame it pushes.  *)
(***************************************************************************)
EXTENDS Integers, Sequences, FiniteSets, TLC

(***************************************************************************)
(* Bounds of the model.                                                    *)
(***************************************************************************)
\* statements in a script, nested ones included
MaxNodes == 3
\* statements in one statement list
MaxStmts == 2
\* calls of walk() the caller makes after the constructor returned
MaxWalks == 1

(***************************************************************************)
(* Program constants.                                                      *)
(***************************************************************************)
ASSIGN_BREAKPOINT == 0
LOOP_BREAKPOINT == 1
\* add_shellcode:  if len(sc) < 32: return
ShellcodeMinLen == 32

ASSIGN_OPERATORS ==
    {"=", "+=", "-=", "*=", "/=", "%=", "<<=", ">>=", ">>>=", "|=", "^=", "&="}

\* Python's None as a scope: no JavaScript identifier is spelled like this.
None == "<None>"

(***************************************************************************)
(* Values of literals.  A string is known by its length and by whether all *)
(* of its characters are below U+0100 (what encode('latin1') needs).       *)
(***************************************************************************)
Str(n, l1) == [kind |-> "str", len |-> n, latin1 |-> l1]
Num(n) == [kind |-> "num", num |-> n]

\* bool(value) of Python: the empty string and 0 are false
Truthy(v) == IF v.kind = "num" THEN v.num # 0 ELSE v.len > 0

\* isinstance(sc, (six.string_types, six.text_type, six.binary_type))
IsTextual(v) == v.kind \in {"str", "bytes"}

\* sc.encode('latin1') can be evaluated
CanEncodeLatin1(v) == v.kind = "str" /\ v.latin1

\* sc.encode('latin1'): the bytes of a string
EncodeLatin1(v) == [kind |-> "bytes", len |-> v.len, latin1 |-> TRUE]

(***************************************************************************)
(* The tree esprima.toDict returns.  Only the fields the analysis reads    *)
(* are kept, and a field whose value is None is omitted (a declarator      *)
(* without initializer has no 'init', testVariableDeclaration relies on    *)
(* it).                                                                    *)
(***************************************************************************)
List(s) == [items |-> s]
IsList(v) == "items" \in DOMAIN v

\* r with the key k set to v
With(r, k, v) == [f \in DOMAIN r \cup {k} |-> IF f = k THEN v ELSE r[f]]

Identifier(n) == [type |-> "Identifier", name |-> n]
Literal(v, r) == [type |-> "Literal", value |-> v, raw |-> r]
CallExpression(args) == [type |-> "CallExpression", arguments |-> List(args)]
MemberExpression == [type |-> "MemberExpression"]
ObjectPattern == [type |-> "ObjectPattern"]
AssignmentExpression(op, l, r) ==
    [type |-> "AssignmentExpression", operator |-> op, left |-> l, right |-> r]
BinaryExpression(op, l, r) ==
    [type |-> "BinaryExpression", operator |-> op, left |-> l, right |-> r]
Declarator(id) == [type |-> "VariableDeclarator", id |-> id]
DeclaratorInit(id, init) == [type |-> "VariableDeclarator", id |-> id, init |-> init]
VariableDeclaration(decls) ==
    [type |-> "VariableDeclaration", declarations |-> List(decls)]
ExpressionStatement(e) == [type |-> "ExpressionStatement", expression |-> e]
ReturnStatement(arg) == [type |-> "ReturnStatement", argument |-> arg]
BlockStatement(stmts) == [type |-> "BlockStatement", body |-> List(stmts)]
LoopStatement(kind, stmts) == [type |-> kind, body |-> BlockStatement(stmts)]
FunctionDeclaration(n, stmts) ==
    [type |-> "FunctionDeclaration", id |-> Identifier(n), body |-> BlockStatement(stmts)]
IfStatement(c) == [type |-> "IfStatement", consequent |-> c]
IfElseStatement(c, a) == [type |-> "IfStatement", consequent |-> c, alternate |-> a]

LoopTypes == {"ForStatement", "WhileStatement", "DoWhileStatement", "ForInStatement"}

(***************************************************************************)
(* The scripts the model analyses: the statement lists of at most         *)
(* MaxNodes statements over a menu, no list longer than MaxStmts.  Every   *)
(* string literal of the menu has a length of its own, so that a shellcode *)
(* candidate names the statement it comes from.                            *)
(***************************************************************************)
FuncNames == {"f", "g"}

\* "s": one character short of the threshold
LitShort == Literal(Str(ShellcodeMinLen - 1, TRUE), "'short'")
\* var a = "...": exactly at the threshold
LitInit == Literal(Str(ShellcodeMinLen, TRUE), "'init'")
\* f("..."): at the threshold, with a character above U+00FF
LitWide == Literal(Str(ShellcodeMinLen, FALSE), "'wide'")
\* return "..."
LitReturn == Literal(Str(ShellcodeMinLen + 1, TRUE), "'return'")
\* o.p = "..."
LitRight == Literal(Str(ShellcodeMinLen + 2, TRUE), "'right'")
\* a += f("...")
LitNested == Literal(Str(ShellcodeMinLen + 3, TRUE), "'nested'")
\* f("...") as a statement
LitArg == Literal(Str(ShellcodeMinLen + 4, TRUE), "'arg'")
LitZero == Literal(Num(0), "0")
LitOne == Literal(Num(1), "1")

\* s += 'short';  the body of every loop of the menu
LoopBody == <<ExpressionStatement(AssignmentExpression("+=", Identifier("s"), LitShort))>>

\* o.p = '<34 characters>';
AssignStatement == ExpressionStatement(AssignmentExpression("=", MemberExpression, LitRight))

\* the statements of the menu that hold no statement of the menu
Leaves ==
    { \* var a;
      VariableDeclaration(<<Declarator(Identifier("a"))>>),
      \* var a = '<32 characters>', b = g();
      VariableDeclaration(<<DeclaratorInit(Identifier("a"), LitInit),
                            DeclaratorInit(Identifier("b"), CallExpression(<<>>))>>),
      \* var {a} = o;
      VariableDeclaration(<<DeclaratorInit(ObjectPattern, Identifier("o"))>>),
      AssignStatement,
      \* a += f('<35 characters>');
      ExpressionStatement(AssignmentExpression("+=", Identifier("a"),
                                               CallExpression(<<LitNested>>))),
      \* f('<31 characters>', '<36 characters>', '<32 characters, not latin1>', x, 0);
      ExpressionStatement(CallExpression(
          <<LitShort, LitArg, LitWide, Identifier("x"), LitZero>>)),
      \* return '<33 characters>';
      ReturnStatement(LitReturn),
      \* ;
      [type |-> "EmptyStatement"],
      \* for (;;) { s += 'short'; }  or another loop: see Locate
      LoopStatement("ForStatement", LoopBody)
    }

\* the statements that stand as the branch of an if statement without braces
BareBranches == {AssignStatement, LoopStatement("ForStatement", LoopBody)}

RECURSIVE Size(_), ListSize(_)
\* statements of a tree (a loop of the menu counts as one, an empty block too)
Size(st) ==
    IF st.type = "FunctionDeclaration" THEN 1 + Size(st.body)
    ELSE IF st.type = "BlockStatement"
         THEN IF st.body.items = <<>> THEN 1 ELSE ListSize(st.body.items)
    ELSE IF st.type = "IfStatement"
         THEN 1 + Size(st.consequent)
                + (IF "alternate" \in DOMAIN st THEN Size(st.alternate) ELSE 0)
    ELSE 1
ListSize(s) == IF s = <<>> THEN 0 ELSE Size(Head(s)) + ListSize(Tail(s))

RECURSIVE StmtsOf(_), ListsOf(_, _)
\* the blocks of n statements
BlocksOf(n) ==
    {BlockStatement(l) : l \in ListsOf(n, MaxStmts)}
    \cup (IF n = 1 THEN {BlockStatement(<<>>)} ELSE {})
\* the branches of n statements of an if statement: a block, or a bare statement
BranchesOf(n) == BlocksOf(n) \cup (IF n = 1 THEN BareBranches ELSE {})
\* the statements of n >= 1 statements, itself included
StmtsOf(n) ==
    (IF n = 1 THEN Leaves ELSE {})
    \cup {[type |-> "FunctionDeclaration", id |-> Identifier(f), body |-> b] :
             f \in FuncNames, b \in BlocksOf(n - 1)}
    \cup {IfStatement(c) : c \in BranchesOf(n - 1)}
    \cup UNION {{IfElseStatement(c, a) : c \in BranchesOf(k), a \in BranchesOf(n - 1 - k)} :
                k \in 1..(n - 2)}
\* the lists of at most len statements, of n >= 1 statements in all
ListsOf(n, len) ==
    IF len = 0 \/ n < 1 THEN {}
    ELSE {<<s>> : s \in StmtsOf(n)}
         \cup UNION {{<<s>> \o l : s \in StmtsOf(k), l \in ListsOf(n - k, len - 1)} :
                     k \in 1..(n - 1)}

\* the statement lists of a script
Bodies == {<<>>} \cup UNION {ListsOf(n, MaxStmts) : n \in 1..MaxNodes}

(***************************************************************************)
(* esprima.parse(script, {'loc': True, ...}): every statement and every    *)
(* declarator carries the line it ends on.  The layout is one statement    *)
(* per line, a closing brace on a line of its own.  The kind of a loop is   *)
(* the one its first line selects, so that the scripts hold loops of all   *)
(* four kinds.                                                             *)
(***************************************************************************)
LoopTypeOn(line) ==
    CASE line % 4 = 1 -> "ForStatement"
      [] line % 4 = 2 -> "WhileStatement"
      [] line % 4 = 3 -> "DoWhileStatement"
      [] OTHER -> "ForInStatement"

RECURSIVE Lines(_), ListLines(_)
Lines(st) ==
    IF st.type = "BlockStatement" THEN ListLines(st.body.items)
    ELSE IF st.type = "FunctionDeclaration" THEN 2 + ListLines(st.body.body.items)
    ELSE IF st.type \in LoopTypes THEN 2 + ListLines(st.body.body.items)
    ELSE IF st.type = "IfStatement"
         THEN 2 + Lines(st.consequent)
                + (IF "alternate" \in DOMAIN st THEN 1 + Lines(st.alternate) ELSE 0)
    ELSE 1
ListLines(s) == IF s = <<>> THEN 0 ELSE Lines(Head(s)) + ListLines(Tail(s))

Loc(line) == [end |-> [line |-> line]]

RECURSIVE Locate(_, _), LocateList(_, _)
\* st with its locations, when st starts on line start
Locate(st, start) ==
    LET at == With(st, "loc", Loc(start + Lines(st) - 1))
    IN  IF st.type = "BlockStatement"
        THEN With(st, "body", List(LocateList(st.body.items, start)))
        ELSE IF st.type = "FunctionDeclaration"
        THEN With(at, "body", Locate(st.body, start + 1))
        ELSE IF st.type \in LoopTypes
        THEN With(With(at, "type", LoopTypeOn(start)), "body", Locate(st.body, start + 1))
        ELSE IF st.type = "IfStatement"
        THEN LET c == With(at, "consequent", Locate(st.consequent, start + 1))
             IN  IF "alternate" \in DOMAIN st
                 THEN With(c, "alternate",
                           Locate(st.alternate, start + 2 + Lines(st.consequent)))
                 ELSE c
        ELSE IF st.type = "VariableDeclaration"
        THEN With(at, "declarations",
                  List([i \in DOMAIN st.declarations.items |->
                           With(st.declarations.items[i], "loc", Loc(start))]))
        ELSE at
LocateList(s, start) ==
    IF s = <<>> THEN <<>>
    ELSE <<Locate(Head(s), start)>> \o LocateList(Tail(s), start + Lines(Head(s)))

\* a script parses to its located tree (a Program node), or fails to parse
Scripts ==
    {[parses |-> FALSE]}
    \cup {[parses |-> TRUE, body |-> l] : l \in Bodies}

\* esprima.toDict(esprima.parse(script, ...)): the first statement is on line 1
Parse(script) == [type |-> "Program", body |-> List(LocateList(script.body, 1))]

(***************************************************************************)
(* The state: one AST instance, the call that is running on it, and the    *)
(* registry log.ThugLogging.shellcodes of the surrounding framework.       *)
(***************************************************************************)
VARIABLES
    script,       \* the argument of the constructor, until it is called
    thugLogging,  \* log.ThugLogging: "absent", "accepts" (add works) or "fails" (add raises)
    registry,     \* log.ThugLogging.shellcodes
    ast,          \* self.ast
    names,        \* self.names
    assignments,  \* self.assignments
    breakpoints,  \* self.breakpoints
    shellcodes,   \* self.shellcodes
    stack,        \* the running calls of walk: <<body, next index, scope>> each
    pc,           \* "new", "walking", "returned" or "raised"
    exc,          \* the exception that reached the caller
    walks,        \* calls of walk() the caller made after the constructor
    given         \* history: the values add_shellcode was called with and did not reject

vars == <<script, thugLogging, registry, ast, names, assignments, breakpoints,
          shellcodes, stack, pc, exc, walks, given>>

\* self.ast before __init_ast has assigned it
NoAst == [type |-> "<unset>"]
\* the constructor's argument after the call
NoScript == [consumed |-> TRUE]
NoException == "<none>"

Range(s) == {s[i] : i \in DOMAIN s}

(***************************************************************************)
(* The handlers, as functions of the instance.  self is the record of the  *)
(* instance's collections, of the registry and of the exception a handler  *)
(* has raised; calls are the calls of walk a handler makes, in order.      *)
(***************************************************************************)
Self ==
    [names |-> names, assignments |-> assignments, breakpoints |-> breakpoints,
     shellcodes |-> shellcodes, registry |-> registry, given |-> given,
     exc |-> NoException, calls |-> <<>>]

Raise(self, e) == [self EXCEPT !.exc = e]

\* AST.set_breakpoint
set_breakpoint(self, stmt, scope, type) ==
    LET bp == [type |-> type, line |-> stmt.loc.end.line, scope |-> scope]
    IN  IF bp \notin Range(self.breakpoints)
        THEN [self EXCEPT !.breakpoints = Append(@, bp)]
        ELSE self

\* add_shellcode with the local set filled in a finally clause: the value goes to
\* self.shellcodes whether or not the registry took it
add_shellcode_finally(self, sc) ==
    IF ~IsTextual(sc) THEN self
    ELSE IF sc.len < ShellcodeMinLen THEN self
    ELSE IF thugLogging = "accepts" /\ CanEncodeLatin1(sc)
         THEN [self EXCEPT !.registry = @ \cup {EncodeLatin1(sc)},
                           !.shellcodes = @ \cup {sc}, !.given = @ \cup {sc}]
         ELSE [self EXCEPT !.shellcodes = @ \cup {sc}, !.given = @ \cup {sc}]

\* AST.add_shellcode
add_shellcode(self, sc) ==
    IF ~IsTextual(sc) THEN self
    ELSE IF sc.len < ShellcodeMinLen THEN self
    ELSE IF thugLogging = "accepts" /\ CanEncodeLatin1(sc)
         THEN [self EXCEPT !.registry = @ \cup {EncodeLatin1(sc)}, !.given = @ \cup {sc}]
         ELSE [self EXCEPT !.shellcodes = @ \cup {sc}, !.given = @ \cup {sc}]

\* AST.onLiteral
onLiteral(self, litr, scope) ==
    IF "value" \in DOMAIN litr /\ Truthy(litr.value)
    THEN add_shellcode(self, litr.value)
    ELSE self

\* AST.onReturnStatement
onReturnStatement(self, stmt, scope) ==
    IF "argument" \notin DOMAIN stmt THEN self
    ELSE IF "value" \in DOMAIN stmt.argument /\ Truthy(stmt.argument.value)
         THEN add_shellcode(self, stmt.argument.value)
         ELSE self

\* AST._walk on a sub-expression: of the kinds an expression can have, only
\* Literal has an on... method
WalkExpression(self, item, scope) ==
    IF item.type = "Literal" THEN onLiteral(self, item, scope) ELSE self

\* AST.handleAssignmentExpression
handleAssignmentExpression(self, stmt, scope) ==
    IF "expression" \notin DOMAIN stmt THEN self
    ELSE IF "operator" \notin DOMAIN stmt.expression THEN self
    ELSE IF stmt.expression.operator \notin ASSIGN_OPERATORS THEN self
    ELSE
        LET name == [name |-> stmt.expression.left.name, scope |-> scope]
            named ==
                IF "name" \in DOMAIN stmt.expression.left /\ name \notin Range(self.names)
                THEN [self EXCEPT !.names = Append(@, name)]
                ELSE self
            left == WalkExpression(named, stmt.expression.left, scope)
            right == WalkExpression(left, stmt.expression.right, scope)
        IN  set_breakpoint(right, stmt, scope, ASSIGN_BREAKPOINT)

RECURSIVE CallArguments(_, _, _)
\* the loop of AST.handleCallExpression over the arguments
CallArguments(self, args, scope) ==
    IF args = <<>> THEN self
    ELSE LET p == Head(args)
             seen == IF "type" \in DOMAIN p /\ p.type = "Literal"
                     THEN onLiteral(self, p, scope)
                     ELSE self
         IN  CallArguments(seen, Tail(args), scope)

\* AST.handleCallExpression
handleCallExpression(self, stmt, scope) ==
    IF "expression" \notin DOMAIN stmt THEN self
    ELSE IF "arguments" \notin DOMAIN stmt.expression THEN self
    ELSE CallArguments(self, stmt.expression.arguments.items, scope)

\* AST.onExpressionStatement
onExpressionStatement(self, stmt, scope) ==
    IF "expression" \notin DOMAIN stmt THEN self
    ELSE IF "type" \notin DOMAIN stmt.expression THEN self
    ELSE IF stmt.expression.type = "AssignmentExpression"
         THEN handleAssignmentExpression(self, stmt, scope)
    ELSE IF stmt.expression.type = "CallExpression"
         THEN handleCallExpression(self, stmt, scope)
    ELSE self

\* one declarator of AST.onVariableDeclaration.  name is one dictionary: the
\* one appended to self.names is the one that is given its 'value' afterwards.
Declare(self, decl, scope) ==
    IF "type" \notin DOMAIN decl THEN self
    ELSE IF decl.type # "VariableDeclarator" THEN self
    ELSE IF "name" \notin DOMAIN decl.id THEN Raise(self, "KeyError")
    ELSE
        LET name == [name |-> decl.id.name, scope |-> scope]
            appended == name \notin Range(self.names)
            named == IF appended THEN [self EXCEPT !.names = Append(@, name)] ELSE self
        IN  IF "init" \notin DOMAIN decl THEN named
            ELSE LET marked == set_breakpoint(named, decl, scope, ASSIGN_BREAKPOINT)
                 IN  IF "raw" \notin DOMAIN decl.init THEN marked
                     ELSE LET valued == With(name, "value", decl.init.raw)
                              aliased ==
                                  IF appended
                                  THEN [marked EXCEPT !.names[Len(marked.names)] = valued]
                                  ELSE marked
                          IN  IF valued \notin Range(aliased.assignments)
                              THEN [aliased EXCEPT !.assignments = Append(@, valued)]
                              ELSE aliased

RECURSIVE Declarations(_, _, _)
\* the loop of AST.onVariableDeclaration over the declarators
Declarations(self, decls, scope) ==
    IF decls = <<>> THEN self
    ELSE LET done == Declare(self, Head(decls), scope)
         IN  IF done.exc # NoException THEN done
             ELSE Declarations(done, Tail(decls), scope)

\* AST.onVariableDeclaration
onVariableDeclaration(self, item, scope) ==
    IF "declarations" \notin DOMAIN item THEN self
    ELSE Declarations(self, item.declarations.items, scope)

\* a call  self.walk(body, scope)
Call(self, body, scope) ==
    [self EXCEPT !.calls = Append(@, [body |-> body, i |-> 1, scope |-> scope])]

\* onFunctionDeclaration walking the body under the scope it was given
onFunctionDeclaration_keepsScope(self, decl, scope) ==
    IF "id" \notin DOMAIN decl THEN self
    ELSE IF "name" \notin DOMAIN decl.id THEN self
    ELSE IF "body" \notin DOMAIN decl THEN self
    ELSE IF "body" \notin DOMAIN decl.body THEN self
    ELSE Call(self, decl.body.body, IF scope = None THEN decl.id.name ELSE scope)

\* AST.onFunctionDeclaration
onFunctionDeclaration(self, decl, scope) ==
    IF "id" \notin DOMAIN decl THEN self
    ELSE IF "name" \notin DOMAIN decl.id THEN self
    ELSE IF "body" \notin DOMAIN decl THEN self
    ELSE IF "body" \notin DOMAIN decl.body THEN self
    ELSE Call(self, decl.body.body, decl.id.name)

\* bool(body) for  body = branch.get('body', None)
WalksBranch(branch) ==
    /\ "body" \in DOMAIN branch
    /\ IsList(branch.body) => branch.body.items # <<>>

\* AST.onIfStatement
onIfStatement(self, stmt, scope) ==
    LET alternate ==
            IF "alternate" \in DOMAIN stmt /\ WalksBranch(stmt.alternate)
            THEN Call(self, stmt.alternate.body, scope)
            ELSE self
    IN  IF "consequent" \in DOMAIN stmt /\ WalksBranch(stmt.consequent)
        THEN Call(alternate, stmt.consequent.body, scope)
        ELSE alternate

\* onForStatement walking the statements of the loop as onFunctionDeclaration does
onForStatement_walksBody(self, stmt, scope) ==
    Call(set_breakpoint(self, stmt, scope, LOOP_BREAKPOINT), stmt.body.body, scope)

\* AST.onForStatement
onForStatement(self, stmt, scope) == set_breakpoint(self, stmt, scope, LOOP_BREAKPOINT)
\* AST.onWhileStatement
onWhileStatement(self, stmt, scope) == set_breakpoint(self, stmt, scope, LOOP_BREAKPOINT)
\* AST.onDoWhileStatement
onDoWhileStatement(self, stmt, scope) == set_breakpoint(self, stmt, scope, LOOP_BREAKPOINT)
\* AST.onForInStatement
onForInStatement(self, stmt, scope) == set_breakpoint(self, stmt, scope, LOOP_BREAKPOINT)

\* the item types AST has an on<type> method for
Handled ==
    {"ExpressionStatement", "VariableDeclaration", "FunctionDeclaration", "IfStatement",
     "ForStatement", "WhileStatement", "DoWhileStatement", "ForInStatement", "Literal",
     "ReturnStatement"}

(***************************************************************************)
(* The walk.                                                               *)
(***************************************************************************)
Top == stack[Len(stack)]
\* the item of the running  for item in body  loop
Item == Top.body.items[Top.i]

RECURSIVE Unwind(_)
\* the calls of walk that still have an item to visit
Unwind(st) ==
    IF st = <<>> THEN <<>>
    ELSE LET top == st[Len(st)]
         IN  IF IsList(top.body) /\ top.i > Len(top.body.items)
             THEN Unwind(SubSeq(st, 1, Len(st) - 1))
             ELSE st

Reverse(s) == [i \in DOMAIN s |-> s[Len(s) + 1 - i]]

\* the calls of walk once the handler of the current item has made calls
Descend(st, calls) ==
    Unwind(SubSeq(st, 1, Len(st) - 1) \o <<[Top EXCEPT !.i = @ + 1]>> \o Reverse(calls))

\* the handler of the current item has run and has left self
Handle(self) ==
    /\ names' = self.names
    /\ assignments' = self.assignments
    /\ breakpoints' = self.breakpoints
    /\ shellcodes' = self.shellcodes
    /\ registry' = self.registry
    /\ given' = self.given
    /\ exc' = self.exc
    /\ IF self.exc # NoException
       THEN stack' = <<>> /\ pc' = "raised"
       ELSE /\ stack' = Descend(stack, self.calls)
            /\ pc' = IF stack' = <<>> THEN "returned" ELSE "walking"
    /\ UNCHANGED <<script, thugLogging, ast, walks>>

\* _walk selects the handler on<type> of the current item
Dispatch(type) ==
    /\ pc = "walking"
    /\ IsList(Top.body)
    /\ Item.type = type

\* the first call of walk: walk(self.ast['body'], None)
Begin(tree) == Unwind(<<[body |-> tree.body, i |-> 1, scope |-> None]>>)

Init ==
    /\ script \in Scripts
    /\ thugLogging \in {"absent", "accepts", "fails"}
    /\ registry = {}
    /\ ast = NoAst
    /\ names = <<>>
    /\ assignments = <<>>
    /\ breakpoints = <<>>
    /\ shellcodes = {}
    /\ stack = <<>>
    /\ pc = "new"
    /\ exc = NoException
    /\ walks = 0
    /\ given = {}

\* __init__ without its try: the exception of __init_ast reaches the caller
Construct_uncaught ==
    /\ pc = "new"
    /\ script' = NoScript
    /\ ast' = IF script.parses THEN Parse(script) ELSE ast
    /\ stack' = IF script.parses THEN Begin(ast') ELSE <<>>
    /\ pc' = IF ~script.parses THEN "raised"
             ELSE IF stack' = <<>> THEN "returned" ELSE "walking"
    /\ exc' = IF script.parses THEN exc ELSE "Error"
    /\ UNCHANGED <<thugLogging, registry, names, assignments, breakpoints, shellcodes,
                   walks, given>>

\* AST.__init__ up to its call of walk; a script that does not parse leaves
\* __init_ast with an exception, which __init__ logs
Construct ==
    /\ pc = "new"
    /\ script' = NoScript
    /\ IF script.parses
       THEN /\ ast' = Parse(script)
            /\ stack' = Begin(ast')
            /\ pc' = IF stack' = <<>> THEN "returned" ELSE "walking"
       ELSE /\ ast' = ast
            /\ stack' = <<>>
            /\ pc' = "returned"
    /\ UNCHANGED <<thugLogging, registry, names, assignments, breakpoints, shellcodes,
                   exc, walks, given>>

\* ast.walk() by the caller, as the tests do after constructing
Walk ==
    /\ pc = "returned"
    /\ walks < MaxWalks
    /\ walks' = walks + 1
    /\ IF "body" \in DOMAIN ast
       THEN /\ stack' = Begin(ast)
            /\ pc' = IF stack' = <<>> THEN "returned" ELSE "walking"
            /\ exc' = exc
       ELSE /\ stack' = <<>>
            /\ pc' = "raised"
            /\ exc' = "AttributeError"
    /\ UNCHANGED <<script, thugLogging, registry, ast, names, assignments, breakpoints,
                   shellcodes, given>>

\* for item in body, when body is a dictionary: item is a key, a string, and
\* item['type'] in _walk raises
WalkKeys ==
    /\ pc = "walking"
    /\ ~IsList(Top.body)
    /\ Handle(Raise(Self, "TypeError"))

\* _walk when the item's type has no handler
Skip ==
    /\ pc = "walking"
    /\ IsList(Top.body)
    /\ Item.type \notin Handled
    /\ Handle(Self)

ExpressionStatementStep ==
    /\ Dispatch("ExpressionStatement")
    /\ Handle(onExpressionStatement(Self, Item, Top.scope))

VariableDeclarationStep ==
    /\ Dispatch("VariableDeclaration")
    /\ Handle(onVariableDeclaration(Self, Item, Top.scope))

FunctionDeclarationStep ==
    /\ Dispatch("FunctionDeclaration")
    /\ Handle(onFunctionDeclaration(Self, Item, Top.scope))

IfStatementStep ==
    /\ Dispatch("IfStatement")
    /\ Handle(onIfStatement(Self, Item, Top.scope))

ForStatementStep ==
    /\ Dispatch("ForStatement")
    /\ Handle(onForStatement(Self, Item, Top.scope))

WhileStatementStep ==
    /\ Dispatch("WhileStatement")
    /\ Handle(onWhileStatement(Self, Item, Top.scope))

DoWhileStatementStep ==
    /\ Dispatch("DoWhileStatement")
    /\ Handle(onDoWhileStatement(Self, Item, Top.scope))

ForInStatementStep ==
    /\ Dispatch("ForInStatement")
    /\ Handle(onForInStatement(Self, Item, Top.scope))

ReturnStatementStep ==
    /\ Dispatch("ReturnStatement")
    /\ Handle(onReturnStatement(Self, Item, Top.scope))

Next ==
    \/ Construct
    \/ Walk
    \/ WalkKeys
    \/ Skip
    \/ ExpressionStatementStep
    \/ VariableDeclarationStep
    \/ FunctionDeclarationStep
    \/ IfStatementStep
    \/ ForStatementStep
    \/ WhileStatementStep
    \/ DoWhileStatementStep
    \/ ForInStatementStep
    \/ ReturnStatementStep

Spec == Init /\ [][Next]_vars

(***************************************************************************)
(* What the properties below speak of.                                     *)
(***************************************************************************)
\* the constructor's own traversal is running or has ended
Constructing == walks = 0
\* _walk is about to hand the current item to its handler
Visiting == pc = "walking" /\ IsList(Top.body)
\* the entries of the three collections, as a set
Entries(ns, as, bs) == Range(ns) \cup Range(as) \cup Range(bs)
\* the entries the step from this state to the next has added or changed
Produced ==
    Entries(names', assignments', breakpoints') \ Entries(names, assignments, breakpoints)

\* the statements of a branch of an if statement
BranchItems(b) == IF b.type = "BlockStatement" THEN b.body.items ELSE <<b>>

RECURSIVE EnclosingIn(_, _, _)
\* the name of the nearest function declaration around the statement that ends
\* on line, searched in the statement list s that lies in function fn
EnclosingIn(s, line, fn) ==
    IF s = <<>> THEN None
    ELSE LET st == Head(s)
         IN  IF st.loc.end.line < line THEN EnclosingIn(Tail(s), line, fn)
             ELSE IF st.loc.end.line = line THEN fn
             ELSE IF st.type = "FunctionDeclaration"
                  THEN EnclosingIn(st.body.body.items, line, st.id.name)
             ELSE IF st.type = "IfStatement"
                  THEN EnclosingIn(BranchItems(st.consequent)
                                     \o (IF "alternate" \in DOMAIN st
                                         THEN BranchItems(st.alternate) ELSE <<>>),
                                   line, fn)
             ELSE IF st.type \in LoopTypes
                  THEN EnclosingIn(st.body.body.items, line, fn)
             ELSE None
\* the nearest function declaration around the statement of the tree that ends
\* on line, by the text of the script; None outside every function declaration
EnclosingFunction(line) == EnclosingIn(ast.body.items, line, None)

(***************************************************************************)
(* C1 (fails on the code).  names never holds two entries with the same    *)
(* (name, scope): the first occurrence of a pair is the only one kept.     *)
(***************************************************************************)
C1_UniqueBindings ==
    \A i, j \in DOMAIN names :
        (names[i].name = names[j].name /\ names[i].scope = names[j].scope) => i = j

\* the string literals at the three inspection points of a statement: the
\* literal arguments of a call that is the statement's expression, the argument
\* of a return, the literal initializers of the declarators
LiteralValues(nodes) ==
    {n.value : n \in {m \in Range(nodes) : m.type = "Literal" /\ IsTextual(m.value)}}
Initializers(decls) ==
    [i \in DOMAIN decls |->
        IF "init" \in DOMAIN decls[i] THEN decls[i].init ELSE [type |-> "<absent>"]]
InspectionPoints(st) ==
    IF st.type = "ExpressionStatement" /\ st.expression.type = "CallExpression"
    THEN LiteralValues(st.expression.arguments.items)
    ELSE IF st.type = "ReturnStatement" /\ "argument" \in DOMAIN st
    THEN LiteralValues(<<st.argument>>)
    ELSE IF st.type = "VariableDeclaration"
    THEN LiteralValues(Initializers(st.declarations.items))
    ELSE {}

(***************************************************************************)
(* C2 (fails on the code).  When a statement has been handled, each string *)
(* literal at one of its inspection points is a shellcode candidate (in    *)
(* self.shellcodes or in the registry) if it has 32 characters or more,    *)
(* and is none if it has 31 or fewer.                                      *)
(***************************************************************************)
C2_Threshold ==
    [][(Visiting /\ pc' # "raised") =>
          \A v \in InspectionPoints(Item) :
              IF v.len >= ShellcodeMinLen
              THEN v \in shellcodes' \/ EncodeLatin1(v) \in registry'
              ELSE v \notin shellcodes' /\ EncodeLatin1(v) \notin registry']_vars

C4_NeverRaises == Constructing => (pc # "raised" /\ exc = NoException)

(***************************************************************************)
(* C5 (fails on the code).  Every entry of names, assignments and          *)
(* breakpoints that a statement outside every function declaration         *)
(* produces carries the scope "global".                                    *)
(***************************************************************************)
C5_GlobalScope ==
    [][(Visiting /\ EnclosingFunction(Item.loc.end.line) = None) =>
          \A e \in Produced : e.scope = "global"]_vars

(***************************************************************************)
(* C6.  Every entry of names, assignments and breakpoints that a statement *)
(* inside a function declaration produces carries the name of the nearest  *)
(* function declaration around the statement, and a function declaration   *)
(* is walked under its own name alone.                                     *)
(***************************************************************************)
C6_FunctionScope ==
    [][(Visiting /\ EnclosingFunction(Item.loc.end.line) # None) =>
          /\ Top.scope = EnclosingFunction(Item.loc.end.line)
          /\ \A e \in Produced : e.scope = EnclosingFunction(Item.loc.end.line)]_vars

\* function f () { function g () { <a declaration or assignment> } }: a binding
\* and a breakpoint of the inner function are there
C6_Witness ==
    /\ pc = "returned"
    /\ "body" \in DOMAIN ast
    /\ Len(ast.body.items) = 1
    /\ ast.body.items[1].type = "FunctionDeclaration"
    /\ ast.body.items[1].id.name = "f"
    /\ ast.body.items[1].body.body.items # <<>>
    /\ ast.body.items[1].body.body.items[1].type = "FunctionDeclaration"
    /\ ast.body.items[1].body.body.items[1].id.name = "g"
    /\ \E e \in Range(names) : e.scope = "g"
    /\ \E e \in Range(breakpoints) : e.scope = "g"

(***************************************************************************)
(* C7.  When the script does not parse, the constructor returns without    *)
(* an exception, walks nothing, and leaves names, assignments, breakpoints *)
(* and the shellcode candidates empty.                                     *)
(***************************************************************************)
C7_ParseFailure ==
    (Constructing /\ pc # "new" /\ ast = NoAst) =>
        /\ pc = "returned"
        /\ exc = NoException
        /\ stack = <<>>
        /\ names = <<>>
        /\ assignments = <<>>
        /\ breakpoints = <<>>
        /\ shellcodes = {}
        /\ registry = {}

\* the constructor has returned from a script that does not parse
C7_Witness == Constructing /\ pc = "returned" /\ ast = NoAst /\ script = NoScript

RECURSIVE LoopLinesIn(_, _)
\* the lines of the loops of the statement st, which starts on line start
LoopLines(st, start) ==
    IF st.type \in LoopTypes THEN start..(start + Lines(st) - 1)
    ELSE IF st.type = "FunctionDeclaration"
         THEN LoopLinesIn(st.body.body.items, start + 1)
    ELSE IF st.type = "IfStatement"
         THEN LoopLinesIn(BranchItems(st.consequent), start + 1)
              \cup (IF "alternate" \in DOMAIN st
                    THEN LoopLinesIn(BranchItems(st.alternate),
                                     start + 2 + Lines(st.consequent))
                    ELSE {})
    ELSE {}
\* the lines of the loops of the statement list s, which starts on line start
LoopLinesIn(s, start) ==
    IF s = <<>> THEN {}
    ELSE LoopLines(Head(s), start) \cup LoopLinesIn(Tail(s), start + Lines(Head(s)))

\* the breakpoint of the loop statement about to be handled
LoopPoint == [type |-> LOOP_BREAKPOINT, line |-> Item.loc.end.line, scope |-> Top.scope]

(***************************************************************************)
(* C8.  The handler of a for, while, do-while or for-in statement leaves   *)
(* the loop's breakpoint (LOOP_BREAKPOINT, end line, current scope) in     *)
(* breakpoints, appended if it was not there, and does nothing else: it    *)
(* changes no other collection, walks no body and raises nothing.  No      *)
(* assignment breakpoint is ever on a line of a loop.                      *)
(***************************************************************************)
C8_LoopFrame ==
    /\ [][(Visiting /\ Item.type \in LoopTypes) =>
             /\ breakpoints' = IF LoopPoint \in Range(breakpoints)
                               THEN breakpoints
                               ELSE Append(breakpoints, LoopPoint)
             /\ UNCHANGED <<names, assignments, shellcodes, registry, given, exc>>
             /\ stack' = Descend(stack, <<>>)]_vars
    /\ [](\A bp \in Range(breakpoints) :
             bp.type = ASSIGN_BREAKPOINT => bp.line \notin LoopLinesIn(ast.body.items, 1))

\* a loop of the outermost list and a loop of a function have left their
\* breakpoints and nothing else, and a second walk has found them there
C8_Witness ==
    /\ pc = "returned"
    /\ walks = 1
    /\ \E bp \in Range(breakpoints) : bp.type = LOOP_BREAKPOINT /\ bp.scope \in FuncNames
    /\ \E bp \in Range(breakpoints) :
          /\ bp.type = LOOP_BREAKPOINT
          /\ bp.scope = None
          /\ bp.line - 1 \in LoopLinesIn(ast.body.items, 1)
    /\ Len(breakpoints) = 2
    /\ names = <<>>

\* the string literals of an assignment statement the specification has
\* inspected: the right-hand side itself, and the literal arguments of a call
\* that is the left-hand or the right-hand side
AssignmentLiterals(st) ==
    LET sides == <<st.expression.left, st.expression.right>>
        calls == {c \in Range(sides) : c.type = "CallExpression"}
    IN  LiteralValues(<<st.expression.right>>)
        \cup UNION {LiteralValues(c.arguments.items) : c \in calls}

(***************************************************************************)
(* C9 (fails on the code).  When an assignment statement with a recognized *)
(* operator has been handled, a string literal of 32 characters or more    *)
(* that is its right-hand side, or a literal argument of a call on either  *)
(* side, is a shellcode candidate.                                         *)
(***************************************************************************)
C9_AssignmentSides ==
    [][(/\ Visiting
        /\ Item.type = "ExpressionStatement"
        /\ Item.expression.type = "AssignmentExpression"
        /\ Item.expression.operator \in ASSIGN_OPERATORS) =>
          \A v \in AssignmentLiterals(Item) :
              v.len >= ShellcodeMinLen =>
                  (v \in shellcodes' \/ EncodeLatin1(v) \in registry')]_vars

(***************************************************************************)
(* C10 (fails on the code).  The breakpoints are in the order of the       *)
(* statements that produced them: an entry of a statement further up in    *)
(* the script comes first, so an entry of the consequent of an if          *)
(* statement comes before every entry of its alternate.                    *)
(***************************************************************************)
C10_SourceOrder ==
    \A i, j \in DOMAIN breakpoints :
        i < j => breakpoints[i].line < breakpoints[j].line

====
